---- MODULE Spec2Model ----
(***************************************************************************)
(* A region quadtree (src/quadtree.py): point insertion with capacity-     *)
(* triggered subdivision, and two pruning nearest-neighbour searches.      *)
(*                                                                         *)
(* Numbers.  Python floats are binary floating point numbers.  The model   *)
(* keeps every coordinate as an integer count of 2^-FracBits units, so     *)
(* that the halving of a width (width / 2, exact in floating point) stays  *)
(* exact, and rounds every sum "origin + width" to MantBits significant    *)
(* bits, ties to even, as the float addition does with 53 bits.  Point     *)
(* coordinates and squared distances between them are small integers: no   *)
(* rounding happens there, in the code or here.                            *)
(*                                                                         *)
(* Recursion.  Python raises RecursionError when a call would make the     *)
(* stack deeper than the recursion limit.  Every operator that models a    *)
(* method carries the frame depth of its call, and yields "RecursionError" *)
(* together with the tree as mutated so far when a call goes past          *)
(* RecursionLimit.                                                         *)
(***************************************************************************)
EXTENDS Integers, Sequences, FiniteSets, TLC

VARIABLES root, calls, query_point, qt_result, best_found_qt, ran

vars == <<root, calls, query_point, qt_result, best_found_qt, ran>>

---------------------------------------------------------------------------
(* Bounds of the model *)

\* number of Quadtree.insert calls of a run
MaxInserts == 3
\* capacities a tree is constructed with: 1..MaxCapacity
MaxCapacity == 2
\* significant bits of a float (53 in the interpreter)
MantBits == 3
\* deepest call stack the interpreter allows (1000 by default)
RecursionLimit == 12

\* side of the root boundary (the scripts use 1000), a power of two
RootSize == 4

\* a node one level down costs two frames (insert, _insert_to_children), so
\* no width is halved more often than this
FracBits == (RecursionLimit \div 2) + 1
Unit == 2 ^ FracBits

\* float('inf'): larger than every number
Inf == -1

\* the label "Rider" of the query point; the inserted points are labelled
\* 0, 1, ... in the order of their insertion ("Driver-0", "Driver-1", ...)
Rider == -2

\* None, where a Point is expected
None == [x |-> 0, y |-> 0, label |-> -1]

---------------------------------------------------------------------------
(* Floating point *)

\* the power of two by which the MantBits-bit significand of v is scaled
RECURSIVE Quantum(_, _)
Quantum(v, q) == IF v < q * (2 ^ MantBits) THEN q ELSE Quantum(v, 2 * q)

\* v >= 0 rounded to MantBits significant bits, ties to the even significand
Fl(v) ==
    LET q  == Quantum(v, 1)
        r  == v % q
        lo == v - r
    IN  IF r = 0 THEN v
        ELSE IF 2 * r < q THEN lo
        ELSE IF 2 * r > q THEN lo + q
        ELSE IF (lo \div q) % 2 = 0 THEN lo ELSE lo + q

\* a < b on floats, one of which may be infinity
Lt(a, b) == IF a = Inf THEN FALSE ELSE IF b = Inf THEN TRUE ELSE a < b

Max3(a, b, c) ==
    LET m == IF a > b THEN a ELSE b IN IF m > c THEN m ELSE c

---------------------------------------------------------------------------
(* Point and Rectangle *)

Point(x, y, label) == [x |-> x, y |-> y, label |-> label]

Rectangle(x, y, width, height) ==
    [x |-> x, y |-> y, width |-> width, height |-> height]

distance_sq_to_point(self, point) ==
    LET dx == Max3(0, self.x - point.x, point.x - Fl(self.x + self.width))
        dy == Max3(0, self.y - point.y, point.y - Fl(self.y + self.height))
    IN  dx * dx + dy * dy

\* a bug: the far edges taken as part of the rectangle
contains_closed(self, point) ==
    /\ self.x <= point.x /\ point.x <= Fl(self.x + self.width)
    /\ self.y <= point.y /\ point.y <= Fl(self.y + self.height)

contains(self, point) ==
    /\ self.x <= point.x /\ point.x < Fl(self.x + self.width)
    /\ self.y <= point.y /\ point.y < Fl(self.y + self.height)

\* (p.x - q.x)**2 + (p.y - q.y)**2
PointDistSq(p, q) == (p.x - q.x) * (p.x - q.x) + (p.y - q.y) * (p.y - q.y)

---------------------------------------------------------------------------
(* QuadtreeNode: construction and subdivision *)

ChildNames == <<"northwest", "northeast", "southwest", "southeast">>

\* None, where a QuadtreeNode is expected
NoNode == <<>>

QuadtreeNode(boundary, capacity) ==
    [boundary |-> boundary, capacity |-> capacity, points |-> <<>>,
     divided |-> FALSE,
     northwest |-> NoNode, northeast |-> NoNode,
     southwest |-> NoNode, southeast |-> NoNode]

\* what a call hands back: the object as the call left it, and the value
\* returned ("True", "False", "None") or the exception raised
Return(node, ret) == [node |-> node, ret |-> ret]
Raise(node) == [node |-> node, ret |-> "RecursionError"]

\* a bug: the north-east and south-west quarters exchanged
subdivide_swapped(self, d) ==
    IF d + 1 > RecursionLimit THEN Raise(self)
    ELSE
    LET x == self.boundary.x
        y == self.boundary.y
        w == self.boundary.width \div 2
        h == self.boundary.height \div 2
    IN  Return([self EXCEPT
                  !.northwest = QuadtreeNode(Rectangle(x, y, w, h), self.capacity),
                  !.northeast = QuadtreeNode(Rectangle(x, Fl(y + h), w, h), self.capacity),
                  !.southwest = QuadtreeNode(Rectangle(Fl(x + w), y, w, h), self.capacity),
                  !.southeast = QuadtreeNode(Rectangle(Fl(x + w), Fl(y + h), w, h), self.capacity),
                  !.divided = TRUE],
               "None")

\* subdivide runs in frame d, the constructors it calls in frame d + 1; the
\* first constructor call is the first to fail, before any assignment
subdivide(self, d) ==
    IF d + 1 > RecursionLimit THEN Raise(self)
    ELSE
    LET x == self.boundary.x
        y == self.boundary.y
        w == self.boundary.width \div 2
        h == self.boundary.height \div 2
    IN  Return([self EXCEPT
                  !.northwest = QuadtreeNode(Rectangle(x, y, w, h), self.capacity),
                  !.northeast = QuadtreeNode(Rectangle(Fl(x + w), y, w, h), self.capacity),
                  !.southwest = QuadtreeNode(Rectangle(x, Fl(y + h), w, h), self.capacity),
                  !.southeast = QuadtreeNode(Rectangle(Fl(x + w), Fl(y + h), w, h), self.capacity),
                  !.divided = TRUE],
               "None")

---------------------------------------------------------------------------
(* QuadtreeNode.insert *)

RECURSIVE QuadtreeNode_insert(_, _, _)
RECURSIVE TryChildren(_, _, _, _)
RECURSIVE MovePoints(_, _, _, _)

\* the chain of "or" in _insert_to_children (frame d): the children are
\* tried in order from the i-th on, until one returns True
TryChildren(self, point, d, i) ==
    IF i > 4 THEN Return(self, "False")
    ELSE LET r == QuadtreeNode_insert(self[ChildNames[i]], point, d + 1)
             n == [self EXCEPT ![ChildNames[i]] = r.node]
         IN  IF r.ret = "False" THEN TryChildren(n, point, d, i + 1)
             ELSE Return(n, r.ret)

insert_to_children(self, point, d) ==
    IF d > RecursionLimit THEN Raise(self) ELSE TryChildren(self, point, d, 1)

\* "for p in self.points: self._insert_to_children(p)" of insert (frame d),
\* from the k-th point on; the value each call returns is dropped
MovePoints(self, pts, k, d) ==
    IF k > Len(pts) THEN Return(self, "None")
    ELSE LET r == insert_to_children(self, pts[k], d + 1)
         IN  IF r.ret = "RecursionError" THEN r
             ELSE MovePoints(r.node, pts, k + 1, d)

QuadtreeNode_insert(self, point, d) ==
    IF d + 1 > RecursionLimit THEN Raise(self)
    ELSE IF ~contains(self.boundary, point) THEN Return(self, "False")
    ELSE IF Len(self.points) < self.capacity /\ ~self.divided
         THEN Return([self EXCEPT !.points = Append(@, point)], "True")
    ELSE IF ~self.divided
         THEN LET s == subdivide(self, d + 1)
              IN  IF s.ret = "RecursionError" THEN s
                  ELSE LET m == MovePoints(s.node, self.points, 1, d)
                       IN  IF m.ret = "RecursionError" THEN m
                           ELSE insert_to_children(
                                    [m.node EXCEPT !.points = <<>>], point, d + 1)
    ELSE insert_to_children(self, point, d + 1)

\* Quadtree.insert, called in frame d
Quadtree_insert(self, point, d) ==
    IF d > RecursionLimit THEN Raise(self)
    ELSE QuadtreeNode_insert(self, point, d + 1)

---------------------------------------------------------------------------
(* Nearest-neighbour search.  A search goes one frame deeper per level of  *)
(* the tree, an insertion two: a search called from the depth the          *)
(* insertions were called from stays within the recursion limit, and the   *)
(* frame depth is left out here.                                           *)

\* the dictionary {'dist_sq': ..., 'point': ...}
BestFound(dist_sq, point) == [dist_sq |-> dist_sq, point |-> point]

\* "for p in self.points: ..." of query and of _find_nearest, from the k-th on
RECURSIVE ScanPoints(_, _, _, _)
ScanPoints(pts, k, point, best_found) ==
    IF k > Len(pts) THEN best_found
    ELSE LET dist_sq == PointDistSq(pts[k], point)
         IN  ScanPoints(pts, k + 1, point,
                        IF Lt(dist_sq, best_found.dist_sq)
                        THEN BestFound(dist_sq, pts[k]) ELSE best_found)

Perm4 == {s \in [1..4 -> 1..4] : \A i, j \in 1..4 : i # j => s[i] # s[j]}

\* list.sort(key=...): ascending keys, equal keys in their former order
SortByKey(key) ==
    CHOOSE s \in Perm4 :
        \A i, j \in 1..4 :
            i < j => \/ key[s[i]] < key[s[j]]
                     \/ key[s[i]] = key[s[j]] /\ s[i] < s[j]

RECURSIVE QuadtreeNode_query(_, _, _)
RECURSIVE QueryChildren(_, _, _, _, _)

\* "for child in children: child.query(point, best_found)", from the k-th on
QueryChildren(self, order, k, point, best_found) ==
    IF k > 4 THEN best_found
    ELSE QueryChildren(self, order, k + 1, point,
             QuadtreeNode_query(self[ChildNames[order[k]]], point, best_found))

\* the accumulator as query leaves it
QuadtreeNode_query(self, point, best_found) ==
    IF Lt(best_found.dist_sq, distance_sq_to_point(self.boundary, point))
    THEN best_found
    ELSE LET scanned == ScanPoints(self.points, 1, point, best_found)
         IN  IF self.divided
             THEN QueryChildren(self,
                      SortByKey([i \in 1..4 |->
                          distance_sq_to_point(self[ChildNames[i]].boundary, point)]),
                      1, point, scanned)
             ELSE scanned

RECURSIVE QuadtreeNode_find_nearest(_, _, _)
RECURSIVE FindNearestChildren(_, _, _, _, _)

FindNearestChildren(self, order, k, query, best_found) ==
    IF k > 4 THEN best_found
    ELSE FindNearestChildren(self, order, k + 1, query,
             QuadtreeNode_find_nearest(self[ChildNames[order[k]]], query, best_found))

\* a bug: only the first child of the order, the quadrant that contains the
\* query point, is searched
find_nearest_first_child_only(self, query, best_found) ==
    IF Lt(best_found.dist_sq, distance_sq_to_point(self.boundary, query))
    THEN best_found
    ELSE LET scanned == ScanPoints(self.points, 1, query, best_found)
         IN  IF self.divided
             THEN LET order == SortByKey([i \in 1..4 |->
                                 IF contains(self[ChildNames[i]].boundary, query)
                                 THEN 0 ELSE 1])
                  IN  QuadtreeNode_find_nearest(self[ChildNames[order[1]]], query, scanned)
             ELSE scanned

\* the accumulator as _find_nearest leaves it; the sort key is the boolean
\* "not child.boundary.contains(query_point)", False before True
QuadtreeNode_find_nearest(self, query, best_found) ==
    IF Lt(best_found.dist_sq, distance_sq_to_point(self.boundary, query))
    THEN best_found
    ELSE LET scanned == ScanPoints(self.points, 1, query, best_found)
         IN  IF self.divided
             THEN FindNearestChildren(self,
                      SortByKey([i \in 1..4 |->
                          IF contains(self[ChildNames[i]].boundary, query)
                          THEN 0 ELSE 1]),
                      1, query, scanned)
             ELSE scanned

\* math.sqrt(v): the number whose square is v; the square root of infinity
\* is infinity
MathSqrt(v) == [sqrt_of |-> v]

\* a bug: the accumulator starts at distance 0 instead of infinity
find_nearest_from_zero(self, query) ==
    LET best_found == QuadtreeNode_find_nearest(self, query, BestFound(0, None))
    IN  [point |-> best_found.point, distance |-> MathSqrt(best_found.dist_sq)]

\* Quadtree.find_nearest: the pair it returns
Quadtree_find_nearest(self, query) ==
    LET best_found == QuadtreeNode_find_nearest(self, query, BestFound(Inf, None))
    IN  [point |-> best_found.point, distance |-> MathSqrt(best_found.dist_sq)]

\* Quadtree.query
Quadtree_query(self, point, best_found) ==
    QuadtreeNode_query(self, point, best_found)

\* the loop of find_closest_brute_force, from the k-th point on
RECURSIVE BruteLoop(_, _, _, _, _)
BruteLoop(all_points, k, query, best_p, min_dist_sq) ==
    IF k > Len(all_points) THEN [best_p |-> best_p, min_dist_sq |-> min_dist_sq]
    ELSE LET dist_sq == PointDistSq(all_points[k], query)
         IN  IF Lt(dist_sq, min_dist_sq)
             THEN BruteLoop(all_points, k + 1, query, all_points[k], dist_sq)
             ELSE BruteLoop(all_points, k + 1, query, best_p, min_dist_sq)

find_closest_brute_force(query, all_points) ==
    BruteLoop(all_points, 1, query, None, Inf)

---------------------------------------------------------------------------
(* The client: it populates the tree, then picks a query point and        *)
(* searches, as both scripts do.                                           *)

\* coordinates of the points handed to insert, in units of the root grid:
\* inside the root boundary (on and off the lines a subdivision draws) ...
InsideCoords == {<<0, 0>>, <<1, 2>>, <<3, 2>>, <<3, 3>>, <<2, 1>>}
\* ... and outside it, the far edges included
OutsideCoords == {<<-1, 1>>, <<RootSize, 2>>}
\* coordinates of the query points
QueryCoords == {<<0, 0>>, <<3, 3>>, <<2, 2>>, <<-1, 1>>}
\* frames already on the stack when the client calls into the tree
CallerFrames == {0, 1}

map_boundary == Rectangle(0, 0, RootSize * Unit, RootSize * Unit)

\* Quadtree(boundary, capacity): the root node it creates
Quadtree(boundary, capacity) == QuadtreeNode(boundary, capacity)

NoResult == [point |-> None, distance |-> MathSqrt(0)]

Init ==
    /\ \E capacity \in 1..MaxCapacity : root = Quadtree(map_boundary, capacity)
    /\ calls = <<>>
    /\ query_point = None
    /\ qt_result = NoResult
    /\ best_found_qt = BestFound(Inf, None)
    /\ ran = {}

\* qt.insert(p), p the next point of the list: its label is its index
Insert(c, base) ==
    /\ root # NoNode
    /\ query_point = None
    /\ Len(calls) < MaxInserts
    /\ LET p == Point(c[1] * Unit, c[2] * Unit, Len(calls))
           r == Quadtree_insert(root, p, base + 1)
       IN  /\ root' = r.node
           /\ calls' = Append(calls, [point |-> p, ret |-> r.ret])
    /\ UNCHANGED <<query_point, qt_result, best_found_qt, ran>>

\* query_point = Point(...), best_found_qt = {'dist_sq': inf, 'point': None}
PickQuery(c) ==
    /\ root # NoNode
    /\ query_point = None
    /\ query_point' = Point(c[1] * Unit, c[2] * Unit, Rider)
    /\ best_found_qt' = BestFound(Inf, None)
    /\ UNCHANGED <<root, calls, qt_result, ran>>

\* qt_nearest, qt_distance = qt.find_nearest(query_point)
FindNearest ==
    /\ query_point # None
    /\ "find_nearest" \notin ran
    /\ qt_result' = Quadtree_find_nearest(root, query_point)
    /\ ran' = ran \cup {"find_nearest"}
    /\ UNCHANGED <<root, calls, query_point, best_found_qt>>

\* qt.query(query_point, best_found_qt)
Query ==
    /\ query_point # None
    /\ "query" \notin ran
    /\ best_found_qt' = Quadtree_query(root, query_point, best_found_qt)
    /\ ran' = ran \cup {"query"}
    /\ UNCHANGED <<root, calls, query_point, qt_result>>

Next ==
    \/ \E c \in InsideCoords \cup OutsideCoords, base \in CallerFrames : Insert(c, base)
    \/ \E c \in QueryCoords : PickQuery(c)
    \/ FindNearest
    \/ Query

Spec == Init /\ [][Next]_vars

(* The same client, from before the tree is constructed: it may hand any   *)
(* boundary and capacity to the constructors.                              *)

InitCtor ==
    /\ root = NoNode
    /\ calls = <<>>
    /\ query_point = None
    /\ qt_result = NoResult
    /\ best_found_qt = BestFound(Inf, None)
    /\ ran = {}

\* qt = Quadtree(Rectangle(0, 0, width, height), capacity)
Construct(width, height, capacity) ==
    /\ root = NoNode
    /\ root' = Quadtree(Rectangle(0, 0, width * Unit, height * Unit), capacity)
    /\ UNCHANGED <<calls, query_point, qt_result, best_found_qt, ran>>

NextCtor ==
    \/ \E width, height \in {0, RootSize}, capacity \in 0..1 :
           Construct(width, height, capacity)
    \/ Next

SpecCtor == InitCtor /\ [][NextCtor]_vars

---------------------------------------------------------------------------
(* Observers of the state, for the properties below *)

\* every point resident in the nodes of a subtree, node by node
RECURSIVE ResidentPoints(_)
ResidentPoints(node) ==
    IF node = NoNode THEN <<>>
    ELSE node.points \o ResidentPoints(node.northwest) \o ResidentPoints(node.northeast)
                     \o ResidentPoints(node.southwest) \o ResidentPoints(node.southeast)

\* the points resident in leaves only
RECURSIVE LeafPoints(_)
LeafPoints(node) ==
    IF node = NoNode THEN <<>>
    ELSE IF ~node.divided THEN node.points
    ELSE LeafPoints(node.northwest) \o LeafPoints(node.northeast)
         \o LeafPoints(node.southwest) \o LeafPoints(node.southeast)

Occurrences(seq, p) == Cardinality({i \in 1..Len(seq) : seq[i] = p})

\* the half-open test of the root boundary the client constructed
InsideRoot(p) ==
    /\ 0 <= p.x /\ p.x < RootSize * Unit
    /\ 0 <= p.y /\ p.y < RootSize * Unit

IsTrue(call) == call.ret = "True"
AcceptedPoints == LET acc == SelectSeq(calls, IsTrue) IN [i \in 1..Len(acc) |-> acc[i].point]
InsertedPoints == [i \in 1..Len(calls) |-> calls[i].point]

\* the depth of the tree below a node
RECURSIVE Depth(_)
Depth(node) ==
    IF ~node.divided THEN 0
    ELSE 1 + Max3(Depth(node.northwest), Depth(node.northeast),
                  LET a == Depth(node.southwest) b == Depth(node.southeast)
                  IN  IF a > b THEN a ELSE b)

---------------------------------------------------------------------------
(* Properties *)

\* C1: find_nearest returns a point whose squared distance to the query is
\* the least squared distance find_closest_brute_force finds over the points
\* whose insert returned True (and no point when there is none).
C1_OracleDistance ==
    "find_nearest" \in ran =>
        LET bf == find_closest_brute_force(query_point, AcceptedPoints)
        IN  IF bf.best_p = None THEN qt_result.point = None
            ELSE /\ qt_result.point # None
                 /\ PointDistSq(qt_result.point, query_point) = bf.min_dist_sq

\* C2: when every inserted point lies inside the root boundary, find_nearest
\* returns the very point object find_closest_brute_force returns on the
\* list of the inserted points, ties included.
C2_SameObject ==
    ("find_nearest" \in ran /\ \A i \in 1..Len(calls) : InsideRoot(calls[i].point)) =>
        qt_result.point = find_closest_brute_force(query_point, InsertedPoints).best_p

\* C3: an insert of a point outside the root boundary returns False and
\* leaves the whole tree as it was: no subdivision, no change to any points
\* list, the same number of stored points.
C3_RejectOutside ==
    [][(Len(calls') = Len(calls) + 1 /\ ~InsideRoot(calls'[Len(calls')].point)) =>
          /\ calls'[Len(calls')].ret = "False"
          /\ root' = root
          /\ Len(ResidentPoints(root')) = Len(ResidentPoints(root))]_vars

\* a point outside the boundary was rejected by a tree that holds points in
\* the children of a subdivided root
C3_Witness ==
    /\ Len(calls) > 0
    /\ ~InsideRoot(calls[Len(calls)].point)
    /\ calls[Len(calls)].ret = "False"
    /\ root.divided
    /\ Len(ResidentPoints(root)) = 2

\* C4: every insert of a point inside the root boundary returns True, and
\* the point is then resident in a leaf.
C4_InsertSucceeds ==
    \A i \in 1..Len(calls) :
        InsideRoot(calls[i].point) =>
            /\ calls[i].ret = "True"
            /\ Occurrences(LeafPoints(root), calls[i].point) >= 1

\* C5: find_nearest on a tree that stores no point returns no point and an
\* infinite distance (the square root of the untouched infinite accumulator).
C5_EmptyTree ==
    ("find_nearest" \in ran /\ Len(ResidentPoints(root)) = 0) =>
        /\ qt_result.point = None
        /\ qt_result.distance = MathSqrt(Inf)

\* find_nearest has answered on a tree whose every insert was rejected
C5_Witness ==
    /\ "find_nearest" \in ran
    /\ Len(calls) > 0
    /\ \A i \in 1..Len(calls) : ~InsideRoot(calls[i].point)
    /\ Len(ResidentPoints(root)) = 0
    /\ qt_result.point = None

\* C6: no tree with a non-positive width, height or capacity is ever
\* operated on by insert or find_nearest: its construction fails.
C6_InvalidConstructionFails ==
    (root # NoNode /\ (Len(calls) > 0 \/ ran # {})) =>
        /\ root.boundary.width > 0
        /\ root.boundary.height > 0
        /\ root.capacity > 0

\* a node and every node below it keep to the capacity
RECURSIVE CapacityKept(_)
CapacityKept(node) ==
    /\ Len(node.points) <= node.capacity
    /\ node.divided =>
          /\ node.points = <<>>
          /\ \A i \in 1..4 : CapacityKept(node[ChildNames[i]])

\* C7: after any sequence of inserts no node holds more than capacity
\* points, and a subdivided node holds none.
C7_Capacity == CapacityKept(root)

\* C8: every point whose insert returned True is resident in exactly one
\* node, and the tree stores as many points as inserts returned True.
C8_StoredExactlyOnce ==
    /\ \A i \in 1..Len(calls) :
          calls[i].ret = "True" => Occurrences(ResidentPoints(root), calls[i].point) = 1
    /\ Len(ResidentPoints(root)) = Len(AcceptedPoints)

\* the points of a subtree lie in their nodes' boundaries and in those above,
\* and the subtree's boundaries are quartered
RECURSIVE Contained(_, _)
Contained(node, above) ==
    /\ \A k \in 1..Len(node.points) :
          \A b \in above \cup {node.boundary} : contains(b, node.points[k])
    /\ node.divided =>
          LET b == node.boundary
              w == b.width \div 2
              h == b.height \div 2
          IN  /\ 2 * w = b.width /\ 2 * h = b.height
              /\ node.northwest.boundary = Rectangle(b.x, b.y, w, h)
              /\ node.northeast.boundary = Rectangle(Fl(b.x + w), b.y, w, h)
              /\ node.southwest.boundary = Rectangle(b.x, Fl(b.y + h), w, h)
              /\ node.southeast.boundary = Rectangle(Fl(b.x + w), Fl(b.y + h), w, h)
              /\ \A i \in 1..4 :
                    Contained(node[ChildNames[i]], above \cup {node.boundary})

\* C9: every resident point lies in the boundary of its node and of every
\* ancestor of it, and the children of a subdivided node have the NW, NE,
\* SW and SE quarters of its boundary.
C9_Containment == Contained(root, {})

\* points are resident two levels below the root, in different quarters
C9_Witness ==
    /\ Depth(root) >= 2
    /\ Len(ResidentPoints(root)) >= 3
    /\ \E i \in 1..4 : root[ChildNames[i]].divided
    /\ \E i \in 1..4 : Len(root[ChildNames[i]].points) > 0

\* C10: started from a fresh accumulator on the same tree with the same
\* query point, query and _find_nearest end with the same best squared
\* distance.
C10_SameDistance ==
    ran = {"find_nearest", "query"} =>
        qt_result.distance = MathSqrt(best_found_qt.dist_sq)

\* both searches ran on a subdivided tree and ended on different points at
\* the same distance: the children were visited in different orders
C10_Witness ==
    /\ ran = {"find_nearest", "query"}
    /\ root.divided
    /\ qt_result.point # None
    /\ qt_result.point # best_found_qt.point
    /\ qt_result.distance = MathSqrt(best_found_qt.dist_sq)

====
